---- MODULE Spec2Model ----
(***************************************************************************)
(* Monthly nurse scheduling (src/main.py): build_and_solve builds a        *)
(* constraint model over boolean assignment variables x[(n, d, s)], hands  *)
(* it to an external exact solver once, and extracts a schedule when the   *)
(* solver reports OPTIMAL or FEASIBLE.                                     *)
(*                                                                         *)
(* The constraint model is a set of constraint groups, each a predicate on *)
(* a valuation of the variables, translated from the lines that add it.    *)
(* The solver is modelled by what its contract allows: it may return any   *)
(* valuation that satisfies every constraint of the model it was given.    *)
(* The valuations it is offered here are those within MaxMoves changes of  *)
(* a start roster (a variable flipped, two nurses' shifts exchanged on a   *)
(* day, or an auxiliary variable moved off the value the assignment alone  *)
(* would give it).                                                         *)
(***************************************************************************)
EXTENDS Integers, Sequences, FiniteSets, TLC

VARIABLES
    data,        \* the ProblemData handed to build_and_solve
    pc,          \* the position in build_and_solve
    xvars,       \* the keys (n, d, s) of the assignment variables created
    model,       \* the constraint groups added to the CpModel so far
    x,           \* the solver's current assignment: x[n][d] = kinds whose variable is 1
    loose,       \* auxiliary variables moved off their propagated value
    moves,       \* search moves made since the solver was called
    status,      \* the status solver.solve returned
    aux,         \* the values of the auxiliary variables in the returned solution
    solveCalls,  \* how many times solver.solve was called
    schedule,    \* the summary extracted from the solver values ({} when none)
    exported     \* whether the spreadsheet was written

vars == <<data, pc, xvars, model, x, loose, moves, status, aux, solveCalls,
          schedule, exported>>

----------------------------------------------------------------------------
(* Bounds of the exploration. *)

MaxMoves == 1   \* search moves away from the start roster
MaxSlack == 1   \* how far a deviation variable is moved above its propagated value

----------------------------------------------------------------------------
(* Shift indices and hard-coded numbers of build_and_solve. *)

D == 0
N == 1
R8 == 2

NoNightNurse == 2        \* nurse index 2 is forbidden from night shifts
CustomHoursNurse == 0    \* nurse index 0 has the custom Mon-Thu day hours
CustomDayHours == 10
ExtraShiftCount == 17    \* an extra nurse works exactly 17 R8 shifts
WeekendLimitDay == 28    \* days from 28 on are never weekend days
MinWeekendShifts == 2
MaxWeekendShifts == 3
MinNights == 1
MaxNights == 3
NightTarget == 2
NightPosMax == 3
NightNegMax == 2
NightDevMax == 3
NeededPerWorkday == 9
NeededPerWeekendDay == 5
W_HOURS == 100
W_NIGHT_DEV == 10
W_SURPLUS == 1

----------------------------------------------------------------------------
(* ProblemData values explored. *)

CfgValid ==
    [base_nurses |-> 9, extra_nurses |-> 8, num_days |-> 23,
     day_shift_hours |-> 11, night_shift_hours |-> 12, eight_hour_shift_hours |-> 8,
     min_hours |-> 78, max_hours |-> 102, target_hours |-> 91,
     workday_shift_min |-> 9, workday_shift_max |-> 10,
     weekend_shift_min |-> 2, weekend_shift_max |-> 3]

CfgMinAboveMax == [CfgValid EXCEPT !.min_hours = 103]
CfgTargetOutside == [CfgValid EXCEPT !.target_hours = 110]
CfgBandInverted == [CfgValid EXCEPT !.workday_shift_min = 11]
CfgBandOverPool == [CfgValid EXCEPT !.workday_shift_min = 18, !.workday_shift_max = 20]

Configs == {CfgValid, CfgMinAboveMax, CfgTargetOutside, CfgBandInverted, CfgBandOverPool}

num_nurses(cfg) == cfg.base_nurses + cfg.extra_nurses

----------------------------------------------------------------------------
(* Indices. *)

base_nurses(cfg) == 0 .. (cfg.base_nurses - 1)
extra_nurses(cfg) == cfg.base_nurses .. (cfg.base_nurses + cfg.extra_nurses - 1)
nurses(cfg) == base_nurses(cfg) \cup extra_nurses(cfg)
days(cfg) == 0 .. (cfg.num_days - 1)

is_weekend(day) == IF day >= WeekendLimitDay THEN FALSE ELSE (day % 7) \in {5, 6}

workdays(cfg) == {d \in days(cfg) : ~is_weekend(d)}
weekend_days(cfg) == {d \in days(cfg) : is_weekend(d)}

(* Variant: nurse index 2 is given night variables like every base nurse. *)
nurse_shifts_NightsForAll(cfg, n) ==
    IF n \in base_nurses(cfg) THEN {D, N} ELSE {R8}

nurse_shifts(cfg, n) ==
    IF n \in base_nurses(cfg)
    THEN (IF n = NoNightNurse THEN {D} ELSE {D, N})
    ELSE {R8}

(* The keys of the decision variables: only allowed shifts get a variable. *)
Keys(cfg) ==
    {k \in nurses(cfg) \X days(cfg) \X {D, N, R8} : k[3] \in nurse_shifts(cfg, k[1])}

(* (n, d, s) in x, for the variables created. *)
HasVar(cfg, n, d, s) == n \in nurses(cfg) /\ d \in days(cfg) /\ s \in nurse_shifts(cfg, n)

(* The 0/1 value of x[(n, d, s)] in assignment a. *)
X(a, n, d, s) == IF s \in a[n][d] THEN 1 ELSE 0

----------------------------------------------------------------------------
(* Linear expressions of the model, evaluated on an assignment a. *)

(* Variant: every day shift counts day_shift_hours, nurse 0's included. *)
DayCoef_Uniform(cfg, n, d) == cfg.day_shift_hours

(* The coefficient of x[(n, d, D)] in a base nurse's hours. *)
DayCoef(cfg, n, d) ==
    IF n = CustomHoursNurse /\ ~is_weekend(d) /\ (d % 7) \in {0, 1, 2, 3}
    THEN CustomDayHours
    ELSE cfg.day_shift_hours

RECURSIVE DayHours(_, _, _, _)
DayHours(cfg, a, n, d) ==
    IF d < 0 THEN 0
    ELSE DayCoef(cfg, n, d) * X(a, n, d, D) + DayHours(cfg, a, n, d - 1)

NightCount(cfg, a, n) == Cardinality({d \in days(cfg) : N \in a[n][d]})

(* hours[n]: the hours expression of nurse n. *)
Hours(cfg, a, n) ==
    IF n \in base_nurses(cfg)
    THEN DayHours(cfg, a, n, cfg.num_days - 1)
         + cfg.night_shift_hours * (IF N \in nurse_shifts(cfg, n) THEN NightCount(cfg, a, n) ELSE 0)
    ELSE cfg.eight_hour_shift_hours
         * Cardinality({d \in workdays(cfg) : a[n][d] \cap nurse_shifts(cfg, n) # {}})

(* The day-like total of day d that the workday demand constrains. *)
DayLike(cfg, a, d) ==
    Cardinality({n \in base_nurses(cfg) : D \in a[n][d]})
    + Cardinality({n \in extra_nurses(cfg) : R8 \in a[n][d]})

DayCount(cfg, a, d) == Cardinality({n \in base_nurses(cfg) : D \in a[n][d]})

NightsOn(cfg, a, d) == Cardinality({n \in base_nurses(cfg) : N \in a[n][d]})

(* w: the weekend shifts (D or N) of base nurse n. *)
WeekendShifts(cfg, a, n) ==
    Cardinality({d \in weekend_days(cfg) : D \in a[n][d]})
    + Cardinality({d \in weekend_days(cfg) : N \in a[n][d]})

total_day_shifts(cfg, a) ==
    Cardinality({k \in base_nurses(cfg) \X days(cfg) : D \in a[k[1]][k[2]]})
    + Cardinality({k \in extra_nurses(cfg) \X workdays(cfg) : R8 \in a[k[1]][k[2]]})

min_needed_day_shifts(cfg) ==
    NeededPerWorkday * Cardinality(workdays(cfg))
    + NeededPerWeekendDay * Cardinality(weekend_days(cfg))

(* The base nurses that get night limits, rest variables and a night deviation. *)
NightNurses(cfg) == {n \in base_nurses(cfg) : n # NoNightNurse}

----------------------------------------------------------------------------
(* The auxiliary variables. A valuation gives each the value the assignment *)
(* alone propagates to it, except for the variables named in a set l of     *)
(* entries <<kind, n, d, i, j, k>>: a pair or singleton indicator with      *)
(* i = 1 is flipped, a deviation triple is raised by (i, j, k), the surplus *)
(* is moved by i - j.                                                       *)

Entry(l, kind, n, d) ==
    IF \E e \in l : e[1] = kind /\ e[2] = n /\ e[3] = d
    THEN CHOOSE e \in l : e[1] = kind /\ e[2] = n /\ e[3] = d
    ELSE <<kind, n, d, 0, 0, 0>>

Flip(bit, by) == IF by = 1 THEN 1 - bit ELSE bit

Pos(v) == IF v > 0 THEN v ELSE 0

(* p = 1 exactly when both nights are worked. *)
PropagatedPair(a, n, d) == IF N \in a[n][d] /\ N \in a[n][d + 1] THEN 1 ELSE 0

(* s = 1 exactly when the night is worked and no pair absorbs it. *)
PropagatedSingle(cfg, a, n, d) ==
    IF /\ N \in a[n][d]
       /\ (d - 1 >= 0 => N \notin a[n][d - 1])
       /\ (d < cfg.num_days - 1 => N \notin a[n][d + 1])
    THEN 1 ELSE 0

Valuation(cfg, a, l) ==
    [pair_vars |->
        [n \in base_nurses(cfg) |->
            [d \in 0 .. (cfg.num_days - 2) |->
                IF n \in NightNurses(cfg)
                THEN Flip(PropagatedPair(a, n, d), Entry(l, "pair", n, d)[4])
                ELSE 0]],
     singleton |->
        [n \in base_nurses(cfg) |->
            [d \in days(cfg) |->
                IF n \in NightNurses(cfg)
                THEN Flip(PropagatedSingle(cfg, a, n, d), Entry(l, "single", n, d)[4])
                ELSE 0]],
     dev_pos |->
        [n \in base_nurses(cfg) |->
            Pos(Hours(cfg, a, n) - cfg.target_hours) + Entry(l, "dev", n, 0)[4]],
     dev_neg |->
        [n \in base_nurses(cfg) |->
            Pos(cfg.target_hours - Hours(cfg, a, n)) + Entry(l, "dev", n, 0)[5]],
     dev_abs |->
        [n \in base_nurses(cfg) |->
            Pos(Hours(cfg, a, n) - cfg.target_hours) + Pos(cfg.target_hours - Hours(cfg, a, n))
            + Entry(l, "dev", n, 0)[6]],
     night_pos |->
        [n \in NightNurses(cfg) |->
            Pos(NightCount(cfg, a, n) - NightTarget) + Entry(l, "night", n, 0)[4]],
     night_neg |->
        [n \in NightNurses(cfg) |->
            Pos(NightTarget - NightCount(cfg, a, n)) + Entry(l, "night", n, 0)[5]],
     night_dev |->
        [n \in NightNurses(cfg) |->
            Pos(NightCount(cfg, a, n) - NightTarget) + Pos(NightTarget - NightCount(cfg, a, n))
            + Entry(l, "night", n, 0)[6]],
     day_surplus |->
        total_day_shifts(cfg, a) - min_needed_day_shifts(cfg)
        + Entry(l, "surplus", 0, 0)[4] - Entry(l, "surplus", 0, 0)[5]]

NoValuation ==
    [pair_vars |-> <<>>, singleton |-> <<>>, dev_pos |-> <<>>, dev_neg |-> <<>>,
     dev_abs |-> <<>>, night_pos |-> <<>>, night_neg |-> <<>>, night_dev |-> <<>>,
     day_surplus |-> 0]

----------------------------------------------------------------------------
(* The constraints, each as the lines of build_and_solve state it, on an    *)
(* assignment a and the auxiliary values v.                                  *)

(* 1) At most one shift per nurse per day. *)
AtMostOne(cfg, a) ==
    \A n \in nurses(cfg) : \A d \in days(cfg) :
        Cardinality(a[n][d] \cap nurse_shifts(cfg, n)) <= 1

(* 2) Daily demand. *)
WorkdayDemand(cfg, a) ==
    \A d \in workdays(cfg) :
        /\ cfg.workday_shift_min <= DayLike(cfg, a, d)
        /\ DayLike(cfg, a, d) <= cfg.workday_shift_max
        /\ NightsOn(cfg, a, d) = 1

(* Variant: the extra nurses' weekend variables are left free. *)
WeekendDemand_ExtraFree(cfg, a) ==
    \A d \in weekend_days(cfg) :
        /\ cfg.weekend_shift_min <= DayCount(cfg, a, d)
        /\ DayCount(cfg, a, d) <= cfg.weekend_shift_max
        /\ NightsOn(cfg, a, d) = 1

WeekendDemand(cfg, a) ==
    \A d \in weekend_days(cfg) :
        /\ cfg.weekend_shift_min <= DayCount(cfg, a, d)
        /\ DayCount(cfg, a, d) <= cfg.weekend_shift_max
        /\ NightsOn(cfg, a, d) = 1
        /\ \A n \in extra_nurses(cfg) : \A s \in nurse_shifts(cfg, n) : X(a, n, d, s) = 0

DailyDemand(cfg, a) == WorkdayDemand(cfg, a) /\ WeekendDemand(cfg, a)

(* 3) Hours per nurse: the band, and the split of the distance to the target. *)
HoursBand(cfg, a) ==
    \A n \in base_nurses(cfg) :
        cfg.min_hours <= Hours(cfg, a, n) /\ Hours(cfg, a, n) <= cfg.max_hours

HoursDeviation(cfg, a, v) ==
    \A n \in base_nurses(cfg) :
        /\ v.dev_pos[n] \in 0 .. (cfg.max_hours - cfg.target_hours)
        /\ v.dev_neg[n] \in 0 .. (cfg.target_hours - cfg.min_hours)
        /\ Hours(cfg, a, n) - cfg.target_hours = v.dev_pos[n] - v.dev_neg[n]
        /\ v.dev_abs[n] \in 0 .. (cfg.max_hours - cfg.min_hours)
        /\ v.dev_abs[n] = v.dev_pos[n] + v.dev_neg[n]

ExtraHours(cfg, a) ==
    \A n \in extra_nurses(cfg) :
        Hours(cfg, a, n) = ExtraShiftCount * cfg.eight_hour_shift_hours

HoursPerNurse(cfg, a, v) ==
    HoursBand(cfg, a) /\ ExtraHours(cfg, a) /\ HoursDeviation(cfg, a, v)

(* 4) No 3 consecutive day shifts for the base nurses. *)
NoThreeDays(cfg, a) ==
    \A n \in base_nurses(cfg) : \A d \in 0 .. (cfg.num_days - 3) :
        X(a, n, d, D) + X(a, n, d + 1, D) + X(a, n, d + 2, D) <= 2

(* Variant: the upper night limit is one too high. *)
NightLimits_OneMore(cfg, a) ==
    \A n \in base_nurses(cfg) :
        IF n = NoNightNurse
        THEN \A d \in days(cfg) : HasVar(cfg, n, d, N) => X(a, n, d, N) = 0
        ELSE MinNights <= NightCount(cfg, a, n) /\ NightCount(cfg, a, n) <= MaxNights + 1

(* 5) Night limits per base nurse. *)
NightLimits(cfg, a) ==
    \A n \in base_nurses(cfg) :
        IF n = NoNightNurse
        THEN \A d \in days(cfg) : HasVar(cfg, n, d, N) => X(a, n, d, N) = 0
        ELSE MinNights <= NightCount(cfg, a, n) /\ NightCount(cfg, a, n) <= MaxNights

(* 6) Night shift rest rules. *)
PairLegal(cfg, a, v) ==
    \A n \in NightNurses(cfg) : \A d \in 0 .. (cfg.num_days - 2) :
        /\ v.pair_vars[n][d] <= X(a, n, d, N)
        /\ v.pair_vars[n][d] <= X(a, n, d + 1, N)
        /\ X(a, n, d, N) + X(a, n, d + 1, N) - 1 <= v.pair_vars[n][d]

NoTriple(cfg, v) ==
    \A n \in base_nurses(cfg) : \A d \in 0 .. (cfg.num_days - 3) :
        v.pair_vars[n][d] + v.pair_vars[n][d + 1] <= 1

SingletonLegal(cfg, a, v) ==
    \A n \in NightNurses(cfg) : \A d \in days(cfg) :
        /\ v.singleton[n][d] <= X(a, n, d, N)
        /\ (d - 1 >= 0 => v.singleton[n][d] + v.pair_vars[n][d - 1] <= 1)
        /\ (d < cfg.num_days - 1 => v.singleton[n][d] + v.pair_vars[n][d] <= 1)
        /\ X(a, n, d, N)
           - (IF d - 1 >= 0 THEN v.pair_vars[n][d - 1] ELSE 0)
           - (IF d < cfg.num_days - 1 THEN v.pair_vars[n][d] ELSE 0)
           - v.singleton[n][d] <= 0

(* Variant: the day before a pair is not constrained. *)
PairRest_NoDayBefore(cfg, a, v) ==
    \A n \in NightNurses(cfg) : \A d \in 0 .. (cfg.num_days - 2) :
        \A k \in {2, 3} :
            d + k < cfg.num_days =>
                /\ X(a, n, d + k, D) + v.pair_vars[n][d] <= 1
                /\ X(a, n, d + k, N) + v.pair_vars[n][d] <= 1

PairRest(cfg, a, v) ==
    \A n \in NightNurses(cfg) : \A d \in 0 .. (cfg.num_days - 2) :
        /\ (d - 1 >= 0 => X(a, n, d - 1, D) + v.pair_vars[n][d] <= 1)
        /\ \A k \in {2, 3} :
              d + k < cfg.num_days =>
                  /\ X(a, n, d + k, D) + v.pair_vars[n][d] <= 1
                  /\ X(a, n, d + k, N) + v.pair_vars[n][d] <= 1

(* Variant: only the day after an isolated night is constrained. *)
SingletonRest_OneDay(cfg, a, v) ==
    \A n \in NightNurses(cfg) : \A d \in days(cfg) :
        d + 1 < cfg.num_days =>
            /\ X(a, n, d + 1, D) + v.singleton[n][d] <= 1
            /\ X(a, n, d + 1, N) + v.singleton[n][d] <= 1

SingletonRest(cfg, a, v) ==
    \A n \in NightNurses(cfg) : \A d \in days(cfg) :
        \A k \in {1, 2} :
            d + k < cfg.num_days =>
                /\ X(a, n, d + k, D) + v.singleton[n][d] <= 1
                /\ X(a, n, d + k, N) + v.singleton[n][d] <= 1

NightRest(cfg, a, v) ==
    /\ PairLegal(cfg, a, v)
    /\ NoTriple(cfg, v)
    /\ SingletonLegal(cfg, a, v)
    /\ PairRest(cfg, a, v)
    /\ SingletonRest(cfg, a, v)

(* Variant: the weekend limits and the pairwise difference are one wider. *)
WeekendBalance_Wider(cfg, a) ==
    /\ \A n \in base_nurses(cfg) :
          MinWeekendShifts - 1 <= WeekendShifts(cfg, a, n)
          /\ WeekendShifts(cfg, a, n) <= MaxWeekendShifts + 1
    /\ \A i \in base_nurses(cfg) : \A j \in base_nurses(cfg) :
          i < j =>
              /\ WeekendShifts(cfg, a, i) - WeekendShifts(cfg, a, j) <= 2
              /\ WeekendShifts(cfg, a, j) - WeekendShifts(cfg, a, i) <= 2

(* 7) Weekend balancing. *)
WeekendBalance(cfg, a) ==
    /\ \A n \in base_nurses(cfg) :
          MinWeekendShifts <= WeekendShifts(cfg, a, n)
          /\ WeekendShifts(cfg, a, n) <= MaxWeekendShifts
    /\ \A i \in base_nurses(cfg) : \A j \in base_nurses(cfg) :
          i < j =>
              /\ WeekendShifts(cfg, a, i) - WeekendShifts(cfg, a, j) <= 1
              /\ WeekendShifts(cfg, a, j) - WeekendShifts(cfg, a, i) <= 1

(* 8) The constraints the objective components add. *)
SurplusDef(cfg, a, v) ==
    /\ v.day_surplus \in 0 .. (cfg.num_days * num_nurses(cfg))
    /\ total_day_shifts(cfg, a) - min_needed_day_shifts(cfg) = v.day_surplus

NightDeviation(cfg, a, v) ==
    \A n \in NightNurses(cfg) :
        /\ v.night_pos[n] \in 0 .. NightPosMax
        /\ v.night_neg[n] \in 0 .. NightNegMax
        /\ NightCount(cfg, a, n) - NightTarget = v.night_pos[n] - v.night_neg[n]
        /\ v.night_dev[n] \in 0 .. NightDevMax
        /\ v.night_dev[n] = v.night_pos[n] + v.night_neg[n]

ObjectiveComponents(cfg, a, v) == SurplusDef(cfg, a, v) /\ NightDeviation(cfg, a, v)

RECURSIVE SumOf(_, _)
SumOf(f, S) ==
    IF S = {} THEN 0
    ELSE LET e == CHOOSE e \in S : TRUE IN f[e] + SumOf(f, S \ {e})

(* Variant: the hours deviation is left out of the objective. *)
Objective_NoHours(cfg, v) ==
    W_NIGHT_DEV * SumOf(v.night_dev, NightNurses(cfg))
    + W_SURPLUS * v.day_surplus

(* The value model.minimize is given. *)
Objective(cfg, v) ==
    W_HOURS * SumOf(v.dev_abs, base_nurses(cfg))
    + W_NIGHT_DEV * SumOf(v.night_dev, NightNurses(cfg))
    + W_SURPLUS * v.day_surplus

(* The constraint groups, in the order build_and_solve adds them. *)
AllGroups ==
    {"at_most_one", "daily_demand", "hours", "no_three_days", "night_limits",
     "night_rest", "weekend_balance", "objective"}

(* Whether the valuation (a, v) satisfies every constraint of the groups in m. *)
AllHold(cfg, m, a, v) ==
    /\ "daily_demand" \in m => DailyDemand(cfg, a)
    /\ "at_most_one" \in m => AtMostOne(cfg, a)
    /\ "night_limits" \in m => NightLimits(cfg, a)
    /\ "no_three_days" \in m => NoThreeDays(cfg, a)
    /\ "weekend_balance" \in m => WeekendBalance(cfg, a)
    /\ "night_rest" \in m => NightRest(cfg, a, v)
    /\ "hours" \in m => HoursPerNurse(cfg, a, v)
    /\ "objective" \in m => ObjectiveComponents(cfg, a, v)

(* The same as a value, so that it is evaluated as one where it guards a step. *)
Satisfies(cfg, m, a, v) == AllHold(cfg, m, a, v) = TRUE

----------------------------------------------------------------------------
(* The solver. *)

(* A configuration whose constraints or variable domains are empty on their *)
(* face: the solver answers without searching.                               *)
EmptyDomain(cfg) ==
    \/ cfg.max_hours - cfg.target_hours < 0
    \/ cfg.target_hours - cfg.min_hours < 0
    \/ cfg.max_hours - cfg.min_hours < 0
    \/ cfg.num_days * num_nurses(cfg) < 0

EmptyBand(cfg) ==
    \/ cfg.min_hours > cfg.max_hours
    \/ cfg.workday_shift_min > cfg.workday_shift_max
    \/ cfg.weekend_shift_min > cfg.weekend_shift_max
    \/ cfg.workday_shift_min > num_nurses(cfg)
    \/ cfg.weekend_shift_min > cfg.base_nurses

(* The roster the search starts from: one row per base nurse, one entry per *)
(* day (0 off, 1 Day, 2 Night); an extra nurse works R8 on every workday.   *)
StartRows ==
    << <<2,0,0,1,0,0,0, 1,0,0,1,0,2,0, 0,0,1,1,0,0,2, 0,0>>,
       <<0,2,2,0,0,1,0, 0,0,0,0,1,0,2, 0,0,0,1,0,1,0, 0,0>>,
       <<1,0,0,0,1,0,1, 0,1,0,1,0,0,1, 1,0,0,0,0,0,1, 0,1>>,
       <<0,0,0,2,0,0,1, 1,0,0,0,1,1,0, 2,0,0,0,2,0,0, 1,0>>,
       <<0,1,0,0,2,2,0, 0,0,0,0,0,0,1, 0,2,0,0,1,0,1, 0,0>>,
       <<0,0,1,0,0,0,2, 0,0,1,0,0,1,0, 0,1,2,0,0,1,0, 1,0>>,
       <<0,0,0,0,0,1,0, 2,2,0,0,0,1,0, 0,1,0,2,0,0,1, 0,0>>,
       <<0,0,0,1,0,1,0, 0,0,2,0,0,0,1, 0,0,0,0,1,1,0, 2,2>>,
       <<1,0,1,0,0,0,1, 0,0,0,2,2,0,0, 1,0,1,0,0,2,0, 0,0>> >>

StartRoster(cfg) ==
    [n \in nurses(cfg) |->
        [d \in days(cfg) |->
            IF n \in extra_nurses(cfg)
            THEN (IF is_weekend(d) THEN {} ELSE {R8})
            ELSE IF n + 1 > Len(StartRows) \/ d + 1 > Len(StartRows[n + 1]) THEN {}
            ELSE IF StartRows[n + 1][d + 1] = 1 THEN {D}
            ELSE IF StartRows[n + 1][d + 1] = 2 /\ N \in nurse_shifts(cfg, n) THEN {N}
            ELSE {}]]

NoRoster == <<>>

(* The changes of one auxiliary variable a search move may make. *)
Triples ==
    {t \in (0 .. MaxSlack) \X (0 .. MaxSlack) \X (0 .. (2 * MaxSlack)) :
        /\ t # <<0, 0, 0>>
        /\ t[3] \in {0, t[1] + t[2]}}

LooseEntries(cfg) ==
    {<<"pair", n, d, 1, 0, 0>> : n \in NightNurses(cfg), d \in 0 .. (cfg.num_days - 2)}
    \cup {<<"single", n, d, 1, 0, 0>> : n \in NightNurses(cfg), d \in days(cfg)}
    \cup {<<"dev", n, 0, t[1], t[2], t[3]>> : n \in base_nurses(cfg), t \in Triples}
    \cup {<<"night", n, 0, t[1], t[2], t[3]>> : n \in NightNurses(cfg), t \in Triples}
    \cup {<<"surplus", 0, 0, i, 0, 0>> : i \in 1 .. MaxSlack}
    \cup {<<"surplus", 0, 0, 0, j, 0>> : j \in 1 .. MaxSlack}

(* The valuations obtained from (a, l) by returning some of the moved       *)
(* auxiliary variables to their propagated values.                          *)
Cheaper(cfg, m, a, l) ==
    \E l2 \in SUBSET l :
        /\ l2 # l
        /\ Satisfies(cfg, m, a, Valuation(cfg, a, l2))
        /\ Objective(cfg, Valuation(cfg, a, l2)) < Objective(cfg, Valuation(cfg, a, l))

Toggle(a, n, d, s) ==
    [a EXCEPT ![n][d] = IF s \in @ THEN @ \ {s} ELSE @ \cup {s}]

----------------------------------------------------------------------------
(* build_and_solve, step by step. *)

Init ==
    /\ data \in Configs
    /\ pc = "create_vars"
    /\ xvars = {}
    /\ model = {}
    /\ x = NoRoster
    /\ loose = {}
    /\ moves = 0
    /\ status = "NONE"
    /\ aux = NoValuation
    /\ solveCalls = 0
    /\ schedule = {}
    /\ exported = FALSE

(* Only pc, and what the step names, change. *)
Step(from, to) == pc = from /\ pc' = to

Untouched == UNCHANGED <<data, x, loose, moves, status, aux, solveCalls, schedule, exported>>

CreateVariables ==
    /\ Step("create_vars", "at_most_one")
    /\ xvars' = Keys(data)
    /\ UNCHANGED model
    /\ Untouched

AddGroup(from, g, to) ==
    /\ Step(from, to)
    /\ model' = model \cup {g}
    /\ UNCHANGED xvars
    /\ Untouched

AddAtMostOne == AddGroup("at_most_one", "at_most_one", "daily_demand")
AddDailyDemand == AddGroup("daily_demand", "daily_demand", "hours")
AddHours == AddGroup("hours", "hours", "no_three_days")
AddNoThreeDays == AddGroup("no_three_days", "no_three_days", "night_limits")
AddNightLimits == AddGroup("night_limits", "night_limits", "night_rest")
AddNightRest == AddGroup("night_rest", "night_rest", "weekend_balance")
AddWeekendBalance == AddGroup("weekend_balance", "weekend_balance", "objective")
AddObjective == AddGroup("objective", "objective", "solve")

(* status = solver.solve(model): the call. *)
CallSolver ==
    /\ Step("solve", "solving")
    /\ solveCalls' = solveCalls + 1
    /\ x' = StartRoster(data)
    /\ loose' = {}
    /\ moves' = 0
    /\ UNCHANGED <<data, xvars, model, status, aux, schedule, exported>>

Searching ==
    /\ pc = "solving"
    /\ ~EmptyDomain(data)
    /\ ~EmptyBand(data)
    /\ moves < MaxMoves

SearchKeeps == UNCHANGED <<data, pc, xvars, model, status, aux, solveCalls, schedule, exported>>

(* The search sets one assignment variable to its other value. *)
SolverFlip ==
    /\ Searching
    /\ \E k \in xvars : x' = Toggle(x, k[1], k[2], k[3])
    /\ moves' = moves + 1
    /\ UNCHANGED loose
    /\ SearchKeeps

(* The search moves a shift of one day from one base nurse to another. *)
SolverSwap ==
    /\ Searching
    /\ \E d \in days(data) : \E s \in {D, N} :
       \E n1 \in base_nurses(data) : \E n2 \in base_nurses(data) :
          /\ n1 # n2
          /\ <<n1, d, s>> \in xvars /\ <<n2, d, s>> \in xvars
          /\ s \in x[n1][d] /\ s \notin x[n2][d]
          /\ x' = Toggle(Toggle(x, n1, d, s), n2, d, s)
    /\ moves' = moves + 1
    /\ UNCHANGED loose
    /\ SearchKeeps

(* The search moves one auxiliary variable off its propagated value. *)
SolverLoosen ==
    /\ Searching
    /\ \E e \in LooseEntries(data) :
          /\ Entry(loose, e[1], e[2], e[3]) \notin loose
          /\ loose' = loose \cup {e}
    /\ moves' = moves + 1
    /\ UNCHANGED x
    /\ SearchKeeps

ReturnKeeps == UNCHANGED <<data, xvars, model, x, loose, moves, solveCalls, schedule, exported>>

(* The solver returns a solution it has not proved optimal. *)
SolverFeasible ==
    /\ Step("solving", "check_status")
    /\ Satisfies(data, model, x, Valuation(data, x, loose))
    /\ status' = "FEASIBLE"
    /\ aux' = Valuation(data, x, loose)
    /\ ReturnKeeps

(* The solver returns a solution of least objective: none is cheaper. *)
SolverOptimal ==
    /\ Step("solving", "check_status")
    /\ Satisfies(data, model, x, Valuation(data, x, loose))
    /\ Cheaper(data, model, x, loose) = FALSE
    /\ status' = "OPTIMAL"
    /\ aux' = Valuation(data, x, loose)
    /\ ReturnKeeps

(* The time budget expired before the search found a solution. *)
SolverUnknown ==
    /\ Step("solving", "check_status")
    /\ ~EmptyDomain(data)
    /\ ~EmptyBand(data)
    /\ moves = 0
    /\ status' = "UNKNOWN"
    /\ UNCHANGED aux
    /\ ReturnKeeps

(* The solver proved that no valuation satisfies the model. *)
SolverInfeasible ==
    /\ Step("solving", "check_status")
    /\ EmptyBand(data)
    /\ status' = "INFEASIBLE"
    /\ UNCHANGED aux
    /\ ReturnKeeps

(* The solver rejected the model: a variable has an empty domain. *)
SolverModelInvalid ==
    /\ Step("solving", "check_status")
    /\ EmptyDomain(data)
    /\ status' = "MODEL_INVALID"
    /\ UNCHANGED aux
    /\ ReturnKeeps

Success(st) == st \in {"OPTIMAL", "FEASIBLE"}

(* Variant: the early return is missing. *)
CheckStatus_NoReturn ==
    /\ pc = "check_status"
    /\ pc' = "summary"
    /\ UNCHANGED <<data, xvars, model, x, loose, moves, status, aux, solveCalls,
                   schedule, exported>>

(* if status not in (OPTIMAL, FEASIBLE): return *)
CheckStatus ==
    /\ pc = "check_status"
    /\ pc' = IF Success(status) THEN "summary" ELSE "done"
    /\ UNCHANGED <<data, xvars, model, x, loose, moves, status, aux, solveCalls,
                   schedule, exported>>

(* The summary read from the solver values. *)
Summary(cfg, a) ==
    [hours |-> [n \in nurses(cfg) |-> Hours(cfg, a, n)],
     day_like_shifts |->
        [n \in nurses(cfg) |->
            Cardinality({d \in days(cfg) : a[n][d] \cap nurse_shifts(cfg, n) \cap {D, R8} # {}})],
     night_shifts |->
        [n \in nurses(cfg) |->
            Cardinality({d \in days(cfg) : N \in a[n][d] \cap nurse_shifts(cfg, n)})],
     weekend_shifts |->
        [n \in nurses(cfg) |->
            Cardinality({k \in weekend_days(cfg) \X nurse_shifts(cfg, n) : k[2] \in a[n][k[1]]})],
     total_day_shifts |-> total_day_shifts(cfg, a)]

ExtractSummary ==
    /\ Step("summary", "export")
    /\ schedule' = {Summary(data, x)}
    /\ UNCHANGED <<data, xvars, model, x, loose, moves, status, aux, solveCalls, exported>>

(* openpyxl is installed: the schedule is written to the spreadsheet. *)
ExportExcel ==
    /\ Step("export", "done")
    /\ exported' = TRUE
    /\ UNCHANGED <<data, xvars, model, x, loose, moves, status, aux, solveCalls, schedule>>

(* openpyxl is not installed: the export is skipped. *)
SkipExport ==
    /\ Step("export", "done")
    /\ UNCHANGED <<data, xvars, model, x, loose, moves, status, aux, solveCalls,
                   schedule, exported>>

Next ==
    \/ CreateVariables
    \/ AddAtMostOne
    \/ AddDailyDemand
    \/ AddHours
    \/ AddNoThreeDays
    \/ AddNightLimits
    \/ AddNightRest
    \/ AddWeekendBalance
    \/ AddObjective
    \/ CallSolver
    \/ SolverFlip
    \/ SolverSwap
    \/ SolverLoosen
    \/ SolverFeasible
    \/ SolverOptimal
    \/ SolverUnknown
    \/ SolverInfeasible
    \/ SolverModelInvalid
    \/ CheckStatus
    \/ ExtractSummary
    \/ ExportExcel
    \/ SkipExport

Spec == Init /\ [][Next]_vars

----------------------------------------------------------------------------
(* Properties. Solved: the solver has returned a solution, which x and aux  *)
(* hold from then on.                                                       *)

Solved == Success(status)

H == data.num_days

Off(n, d) == x[n][d] = {}

NightAt(n, d) == d \in days(data) /\ N \in x[n][d]

PairAt(n, d) == NightAt(n, d) /\ NightAt(n, d + 1)

IsolatedAt(n, d) == NightAt(n, d) /\ ~NightAt(n, d - 1) /\ ~NightAt(n, d + 1)

(* C1: in every solution, a nurse with Night on d and d+1 has no shift of   *)
(* any kind on d-1 (when in the horizon) nor on d+2 and d+3 (when in the    *)
(* horizon), and no nurse has Night on three consecutive days.              *)
C1_PairRestAndNoTriple ==
    Solved =>
        /\ \A n \in NightNurses(data) : \A d \in days(data) :
              PairAt(n, d) =>
                  /\ (d - 1 >= 0 => Off(n, d - 1))
                  /\ (d + 2 < H => Off(n, d + 2))
                  /\ (d + 3 < H => Off(n, d + 3))
        /\ \A n \in nurses(data) : \A d \in days(data) :
              ~(NightAt(n, d) /\ NightAt(n, d + 1) /\ NightAt(n, d + 2))

(* A solution with a pair inside the horizon and a pair on its last two days. *)
C1_Witness ==
    /\ Solved
    /\ \E n \in NightNurses(data) : \E d \in days(data) :
          PairAt(n, d) /\ d - 1 >= 0 /\ d + 3 < H
    /\ \E n \in NightNurses(data) : PairAt(n, H - 2)

(* C2: in every solution, a nurse with an isolated Night on d (none on d-1  *)
(* nor d+1, the horizon's edges included) has no shift of any kind on d+1   *)
(* and d+2, when those days are in the horizon.                             *)
C2_IsolatedNightRest ==
    Solved =>
        \A n \in NightNurses(data) : \A d \in days(data) :
            IsolatedAt(n, d) =>
                /\ (d + 1 < H => Off(n, d + 1))
                /\ (d + 2 < H => Off(n, d + 2))

(* A solution with an isolated night on day 0, one inside the horizon and   *)
(* one on the last day.                                                     *)
C2_Witness ==
    /\ Solved
    /\ \E n \in NightNurses(data) : IsolatedAt(n, 0)
    /\ \E n \in NightNurses(data) : \E d \in days(data) :
          IsolatedAt(n, d) /\ d - 1 >= 0 /\ d + 2 < H
    /\ \E n \in NightNurses(data) : IsolatedAt(n, H - 1)

Workers(S, d, s) == Cardinality({n \in S : s \in x[n][d]})

(* C3: in every solution, a workday has between workday_shift_min and       *)
(* workday_shift_max day-like assignments (Day of the standard nurses plus  *)
(* R8 of the auxiliary nurses), a weekend day has between weekend_shift_min *)
(* and weekend_shift_max Day assignments and no assignment of an auxiliary  *)
(* nurse, and every day has exactly one Night assignment.                   *)
C3_DailyCoverage ==
    Solved =>
        \A d \in days(data) :
            /\ Workers(nurses(data), d, N) = 1
            /\ IF (d % 7) \in {5, 6} /\ d < 28
               THEN /\ Workers(base_nurses(data), d, D) >= data.weekend_shift_min
                    /\ Workers(base_nurses(data), d, D) <= data.weekend_shift_max
                    /\ \A n \in extra_nurses(data) : Off(n, d)
               ELSE /\ Workers(base_nurses(data), d, D) + Workers(extra_nurses(data), d, R8)
                          >= data.workday_shift_min
                    /\ Workers(base_nurses(data), d, D) + Workers(extra_nurses(data), d, R8)
                          <= data.workday_shift_max

(* A solution with auxiliary nurses, a workday at the band's minimum, one at *)
(* its maximum, and weekend days.                                           *)
C3_Witness ==
    /\ Solved
    /\ extra_nurses(data) # {}
    /\ \E d \in days(data) : is_weekend(d)
    /\ \E d \in workdays(data) : DayLike(data, x, d) = data.workday_shift_min
    /\ \E d \in workdays(data) : DayLike(data, x, d) = data.workday_shift_max

(* C4: every nurse has at most one assigned kind on every day of a          *)
(* solution, and an assignment variable exists only for a kind the nurse is *)
(* eligible for: Day and Night for a standard nurse, except Night for nurse *)
(* index 2, and R8 alone for an auxiliary nurse.                            *)
C4_AtMostOneAndEligibleVars ==
    /\ Solved => \A n \in nurses(data) : \A d \in days(data) : Cardinality(x[n][d]) <= 1
    /\ \A k \in xvars :
          IF k[1] < data.base_nurses
          THEN k[3] = D \/ (k[3] = N /\ k[1] # 2)
          ELSE k[3] = R8

(* A solution in which the variables exist and nurses of both categories work. *)
C4_Witness ==
    /\ Solved
    /\ xvars # {}
    /\ \E n \in base_nurses(data) : \E d \in days(data) : x[n][d] = {N}
    /\ \E n \in base_nurses(data) : \E d \in days(data) : x[n][d] = {D}
    /\ \E n \in extra_nurses(data) : \E d \in days(data) : x[n][d] = {R8}

Nights(n) == Cardinality({d \in days(data) : N \in x[n][d]})

(* C5: in every solution, a standard nurse other than nurse index 2 has     *)
(* between 1 and 3 Night assignments, and nurse index 2 and the auxiliary   *)
(* nurses have none.                                                        *)
C5_NightCounts ==
    Solved =>
        \A n \in nurses(data) :
            IF n < data.base_nurses /\ n # 2
            THEN Nights(n) >= 1 /\ Nights(n) <= 3
            ELSE Nights(n) = 0

(* A solution with a nurse at 3 nights, one below 3, and nurse 2 present. *)
C5_Witness ==
    /\ Solved
    /\ 2 \in base_nurses(data)
    /\ \E n \in base_nurses(data) : Nights(n) = 3
    /\ \E n \in NightNurses(data) : Nights(n) < 3
    /\ extra_nurses(data) # {}

(* The days on which a Day shift of nurse index 0 counts 10 hours. *)
TenHourDays == {d \in days(data) : ~is_weekend(d) /\ (d % 7) \in 0 .. 3}

StandardHours(n) ==
    IF n = 0
    THEN 10 * Cardinality({d \in TenHourDays : D \in x[n][d]})
         + data.day_shift_hours * Cardinality({d \in days(data) \ TenHourDays : D \in x[n][d]})
         + data.night_shift_hours * Nights(n)
    ELSE data.day_shift_hours * Cardinality({d \in days(data) : D \in x[n][d]})
         + data.night_shift_hours * Nights(n)

AuxiliaryHours(n) ==
    data.eight_hour_shift_hours * Cardinality({d \in days(data) : x[n][d] # {}})

(* C6: in every solution, a standard nurse's total hours (Day assignments   *)
(* at day_shift_hours, those of nurse index 0 on non-weekend Monday to      *)
(* Thursday days at 10, Night assignments at night_shift_hours) lie in      *)
(* [min_hours, max_hours], and an auxiliary nurse's total hours are exactly *)
(* 17 times eight_hour_shift_hours.                                         *)
C6_HoursBand ==
    Solved =>
        /\ \A n \in base_nurses(data) :
              data.min_hours <= StandardHours(n) /\ StandardHours(n) <= data.max_hours
        /\ \A n \in extra_nurses(data) :
              AuxiliaryHours(n) = 17 * data.eight_hour_shift_hours

(* A solution in which nurse 0 works a 10-hour day and an 11-hour day, and  *)
(* an auxiliary nurse works a positive number of hours.                     *)
C6_Witness ==
    /\ Solved
    /\ \E d \in TenHourDays : D \in x[0][d]
    /\ data.day_shift_hours # 10
    /\ \E n \in extra_nurses(data) : AuxiliaryHours(n) > 0

WeekendCount(n) ==
    Cardinality({d \in days(data) : is_weekend(d) /\ x[n][d] \cap {D, N} # {}})

(* C7: in every solution, every standard nurse has 2 or 3 weekend           *)
(* assignments, and two standard nurses' counts differ by at most 1.        *)
C7_WeekendFairness ==
    Solved =>
        /\ \A n \in base_nurses(data) : WeekendCount(n) \in {2, 3}
        /\ \A i \in base_nurses(data) : \A j \in base_nurses(data) :
              WeekendCount(i) - WeekendCount(j) <= 1

(* A solution with a nurse at 2 weekend assignments and one at 3. *)
C7_Witness ==
    /\ Solved
    /\ \E n \in base_nurses(data) : WeekendCount(n) = 2
    /\ \E n \in base_nurses(data) : WeekendCount(n) = 3

(* C8: the solver is called at most once; after INFEASIBLE or UNKNOWN no    *)
(* schedule is extracted or exported; after OPTIMAL or FEASIBLE the         *)
(* schedule is the summary of the solver's values; and the model the solver *)
(* was given keeps every constraint group.                                  *)
C8_SingleSolveNoRelaxation ==
    /\ solveCalls <= 1
    /\ (pc \in {"check_status", "summary", "export", "done"} <=> status # "NONE")
    /\ status # "NONE" => solveCalls = 1
    /\ solveCalls = 1 => model = AllGroups
    /\ ~Solved => schedule = {} /\ ~exported /\ pc \notin {"summary", "export"}
    /\ Solved /\ pc \in {"export", "done"} => schedule = {Summary(data, x)}

(* build_and_solve has returned after the solver reported no solution. *)
C8_Witness ==
    /\ pc = "done"
    /\ status \in {"INFEASIBLE", "UNKNOWN"}
    /\ solveCalls = 1
    /\ schedule = {}

(* A configuration the claim calls invalid. *)
InvalidConfiguration(cfg) ==
    \/ cfg.min_hours > cfg.max_hours
    \/ cfg.target_hours < cfg.min_hours
    \/ cfg.target_hours > cfg.max_hours
    \/ cfg.workday_shift_min > cfg.workday_shift_max
    \/ cfg.weekend_shift_min > cfg.weekend_shift_max
    \/ cfg.workday_shift_min > cfg.base_nurses + cfg.extra_nurses
    \/ cfg.weekend_shift_min > cfg.base_nurses

(* C9: an invalid configuration is rejected before any model variable or    *)
(* constraint is created.                                                   *)
C9_InvalidConfigurationRejected ==
    InvalidConfiguration(data) => xvars = {} /\ model = {} /\ solveCalls = 0

Abs(v) == IF v < 0 THEN 0 - v ELSE v

HoursGap(n) == Abs(StandardHours(n) - data.target_hours)

NightGap(n) == Abs(Nights(n) - 2)

(* C10 as stated: in every solution, OPTIMAL or FEASIBLE, dev_abs equals    *)
(* the absolute deviation of the hours from target_hours and night_dev that *)
(* of the Night count from 2.                                               *)
C10_DeviationIsAbsolute ==
    Solved =>
        /\ \A n \in base_nurses(data) : aux.dev_abs[n] = HoursGap(n)
        /\ \A n \in NightNurses(data) : aux.night_dev[n] = NightGap(n)

(* C10 as amended: in every solution dev_abs = dev_pos + dev_neg is at      *)
(* least the absolute deviation of the hours from target_hours, and         *)
(* night_dev = night_pos + night_neg at least that of the Night count from  *)
(* 2; in an OPTIMAL solution both are equal to it.                          *)
C10_DeviationAtOptimum ==
    Solved =>
        /\ \A n \in base_nurses(data) :
              /\ aux.dev_abs[n] = aux.dev_pos[n] + aux.dev_neg[n]
              /\ aux.dev_abs[n] >= HoursGap(n)
              /\ status = "OPTIMAL" => aux.dev_abs[n] = HoursGap(n)
        /\ \A n \in NightNurses(data) :
              /\ aux.night_dev[n] = aux.night_pos[n] + aux.night_neg[n]
              /\ aux.night_dev[n] >= NightGap(n)
              /\ status = "OPTIMAL" => aux.night_dev[n] = NightGap(n)

(* An OPTIMAL solution with a nurse above, one below and one on the hours   *)
(* target, and a nurse off the night target.                                *)
C10_Witness ==
    /\ status = "OPTIMAL"
    /\ \E n \in base_nurses(data) : StandardHours(n) > data.target_hours
    /\ \E n \in base_nurses(data) : StandardHours(n) < data.target_hours
    /\ \E n \in base_nurses(data) : StandardHours(n) = data.target_hours
    /\ \E n \in NightNurses(data) : Nights(n) # 2

(* The day-like assignments of a solution: Day of the standard nurses and   *)
(* R8 of the auxiliary nurses, over all days.                               *)
DayLikeAssignments ==
    Cardinality({k \in base_nurses(data) \X days(data) : D \in x[k[1]][k[2]]})
    + Cardinality({k \in extra_nurses(data) \X days(data) : R8 \in x[k[1]][k[2]]})

(* The minimum the configured coverage lower bounds imply. *)
ConfiguredMinimum ==
    data.workday_shift_min * Cardinality({d \in days(data) : ~is_weekend(d)})
    + data.weekend_shift_min * Cardinality({d \in days(data) : is_weekend(d)})

(* C11: in every solution the surplus term equals the number of day-like    *)
(* assignments minus (workday_shift_min times the number of workdays plus   *)
(* weekend_shift_min times the number of weekend days).                     *)
C11_SurplusUsesConfiguredMinima ==
    Solved => aux.day_surplus = DayLikeAssignments - ConfiguredMinimum

(* The assignment the solver holds satisfies the coverage, hours-band,      *)
(* night-count, rest-pattern, consecutive-Day and weekend-fairness          *)
(* constraints (the rest indicators at the values the assignment fixes).    *)
SatisfiesRosterConstraints ==
    /\ AtMostOne(data, x)
    /\ DailyDemand(data, x)
    /\ HoursBand(data, x)
    /\ ExtraHours(data, x)
    /\ NoThreeDays(data, x)
    /\ NightLimits(data, x)
    /\ NightRest(data, x, Valuation(data, x, {}))
    /\ WeekendBalance(data, x)

(* Values of the auxiliary objective variables, within their domains, exist *)
(* that satisfy the constraints stated with them.                           *)
ObjectiveVariablesCompletable ==
    /\ \A n \in base_nurses(data) :
          \E p \in 0 .. (data.max_hours - data.target_hours) :
          \E q \in 0 .. (data.target_hours - data.min_hours) :
              /\ Hours(data, x, n) - data.target_hours = p - q
              /\ p + q \in 0 .. (data.max_hours - data.min_hours)
    /\ \A n \in NightNurses(data) :
          \E p \in 0 .. NightPosMax : \E q \in 0 .. NightNegMax :
              /\ NightCount(data, x, n) - NightTarget = p - q
              /\ p + q \in 0 .. NightDevMax
    /\ \E s \in 0 .. (data.num_days * num_nurses(data)) :
          total_day_shifts(data, x) - min_needed_day_shifts(data) = s

(* C12: for a configuration with min_hours <= target_hours <= max_hours,    *)
(* every assignment that satisfies the coverage, hours-band, night-count,   *)
(* rest-pattern, consecutive-Day and weekend-fairness constraints can be    *)
(* completed with values of the auxiliary objective variables so that the   *)
(* constraints of the objective section hold as well.                       *)
C12_ObjectiveKeepsFeasibility ==
    (/\ pc = "solving"
     /\ data.min_hours <= data.target_hours
     /\ data.target_hours <= data.max_hours
     /\ SatisfiesRosterConstraints)
        => ObjectiveVariablesCompletable

====
